---- MODULE Spec2Model ----
(***************************************************************************)
(* Model of the I/O-wait core of libgo (src/libgo/linux/io_wait.cpp):      *)
(* CoSwitch / SchedulerSwitch / Cancel / WaitLoop over the wait-set, the   *)
(* two epoll instances, the timer manager and the task reference counts.   *)
(*                                                                         *)
(* Every thread of control is a small program counter machine:             *)
(*   - the task itself (CoSwitch, then suspended until AddTaskRunnable),   *)
(*   - one SchedulerSwitch activation per block,                           *)
(*   - the threads calling WaitLoop,                                       *)
(*   - threads calling Cancel directly.                                    *)
(* One step of the model is one access to shared state (a wait-set         *)
(* operation, one epoll_ctl, one epoll_wait, ...), so every interleaving   *)
(* the locks of the code allow is explored.                                *)
(***************************************************************************)
EXTENDS Integers, Sequences, FiniteSets, TLC

(* ------------------------------ bounds --------------------------------- *)
NumTasks == 2
MaxBlocks == 2
NumWaitThreads == 2
NumCancelThreads == 1
MaxForks == 1
MaxSleepMs == 14

Tasks == 1..NumTasks
BlockIds == 1..MaxBlocks
WaitThreads == 1..NumWaitThreads
CancelThreads == (NumWaitThreads + 1)..(NumWaitThreads + NumCancelThreads)
Actors == WaitThreads \cup CancelThreads

(* --------------------------- program constants ------------------------- *)
EPOLLIN == 1
EPOLLOUT == 4
NoTimeout == -1
EpollRead == 0
EpollWrite == 1
EpollTypes == {EpollRead, EpollWrite}

(* File descriptors of the environment.  GoodFds can be registered with    *)
(* epoll; an EPOLL_CTL_ADD of a BadFd fails with an error other than       *)
(* EEXIST (EBADF, EPERM).                                                  *)
GoodFds == {10, 11}
BadFds == {99}
Fds == GoodFds \cup BadFds

Fd(fd, event) == [fd |-> fd, event |-> event]

(* The interest lists a task blocks on, and the timeouts.                  *)
FdLists ==
    { <<Fd(10, EPOLLIN)>>,
      <<Fd(10, EPOLLIN), Fd(10, EPOLLIN)>>,
      <<Fd(10, EPOLLIN), Fd(99, EPOLLIN), Fd(11, EPOLLOUT)>>,
      <<Fd(99, EPOLLIN)>> }
Timeouts == {NoTimeout, 50}

InitRef == 1
NoFd == -1

VARIABLES
    state_,            \* Task::state_ : "running" | "io_block" | "runnable"
    io_block_id_,      \* IoWaitData::io_block_id_
    wait_successful_,  \* IoWaitData::wait_successful_
    io_block_timeout_, \* IoWaitData::io_block_timeout_
    io_block_timer_,   \* IoWaitData::io_block_timer_ (0 = empty handle, else the id the timer carries)
    wait_fds_,         \* IoWaitData::wait_fds_
    io_block_lock_,    \* IoWaitData::io_block_lock_ (TRUE = held)
    ref,               \* the task's reference count
    wait_tasks_,       \* IoWait::wait_tasks_
    reg,               \* kernel: the interest list of each epoll instance
    timer,             \* timer_mgr_ / timeout_list_ : where the callback of block (t, g) is
    epoll_lock_,       \* IoWait::epoll_lock_ (0 = free, else the WaitLoop thread)
    epollwait_tasks_,  \* IoWait::epollwait_tasks_
    epoll_owner_pid_,  \* IoWait::epoll_owner_pid_
    pid,               \* the id of the process the threads run in
    epollwait_ms_,     \* IoWait::epollwait_ms_
    max_sleep_ms,      \* g_Scheduler.GetOptions().max_sleep_ms
    delete_list_,      \* the deferred-delete list of Task: tasks whose count reached zero
    destroyed,         \* the tasks WaitLoop has deleted
    epoll_fds_,        \* IoWait::epoll_fds_
    epoll_create_lock_, \* IoWait::epoll_create_lock_ (0 = free, else the holder)
    open_fds,          \* kernel: the epoll descriptors open in the process
    ce,                \* the ChooseEpoll / GetEpoll activation of each thread
    ss,                \* the SchedulerSwitch activation of block (t, g)
    cn,                \* the Cancel activation of each thread
    wl,                \* the WaitLoop activation of each thread
    resumes,           \* history: AddTaskRunnable calls per block
    resumer,           \* history: which path called AddTaskRunnable for the block
    delivered          \* history: events epoll_wait returned for the block

taskVars == <<state_, io_block_id_, wait_successful_, io_block_timeout_, io_block_timer_,
              wait_fds_, io_block_lock_, ref>>
histVars == <<resumes, resumer, delivered>>
vars == <<state_, io_block_id_, wait_successful_, io_block_timeout_, io_block_timer_,
          wait_fds_, io_block_lock_, ref, wait_tasks_, reg, timer, epoll_lock_,
          epollwait_tasks_, epoll_owner_pid_, pid, ss, cn, wl,
          resumes, resumer, delivered, epollwait_ms_, max_sleep_ms,
          delete_list_, destroyed, epoll_fds_, epoll_create_lock_, open_fds, ce>>
createVars == <<epoll_fds_, epoll_create_lock_, open_fds, ce>>
\* The state the steps of CoSwitch, SchedulerSwitch, Cancel and WaitLoop
\* leave alone.
sideVars == <<epollwait_ms_, max_sleep_ms, createVars>>

\* getpid()
getpid == pid

lifeVars == <<delete_list_, destroyed>>

\* Task::DecrementRef reaching zero: the task is not destroyed on the spot,
\* it joins the deferred-delete list that WaitLoop pops (lines 242-243).  r
\* is the reference counts after the step.
PushDeleteList(r) ==
    delete_list_ \cup {t \in Tasks : r[t] = 0 /\ ref[t] # 0}

(* ------------------------------ helpers -------------------------------- *)
NoReg == [tk |-> 0, id |-> 0, st |-> "none"]
\* ok, rollback, the loop positions i and j, the range fds and the lock
\* guard are the locals of SchedulerSwitch; dup (an add failed with EEXIST)
\* and held (IncrementRef minus DecrementRef of lines 83-97) record what
\* the activation did.
NoSS == [pc |-> "idle", id |-> 0, i |-> 0, ok |-> FALSE, dup |-> FALSE,
         held |-> 0,
         rollback |-> <<>>, j |-> 0, fds |-> <<>>, locked |-> FALSE]
NoCancel == [pc |-> "none", tk |-> 0, id |-> 0, i |-> 0, fds |-> <<>>,
             locked |-> FALSE, src |-> "none"]
\* c, epoll_n and evs are the locals of WaitLoop; at pc "returned" the call
\* is over, ret is the value it returned and got tells whether it held
\* epoll_lock_.
\* type is the instance ChooseEpoll / GetEpoll was asked for, i the loop
\* variable of CreateEpoll, fd the descriptor the call returned.
NoCreate == [pc |-> "idle", type |-> 0, i |-> 0, fd |-> NoFd]
NoWaitLoop == [pc |-> "idle", c |-> 0, epoll_n |-> 0, evs |-> {},
               ret |-> 0, got |-> FALSE]

\* IoWait::ChooseEpoll: the instance an interest mask is registered in.
ChooseEpoll(event) == IF (event % 2) = EPOLLIN THEN EpollRead ELSE EpollWrite

\* IoWait::IsEpollCreated
IsEpollCreated == epoll_owner_pid_ = getpid

\* Variant of CreateEpoll that never recreates the instances.
CreateEpoll_Keep == reg

\* IoWait::CreateEpoll, called by ChooseEpoll before every epoll_ctl: the
\* interest lists of the two instances the caller then works on.  When the
\* recorded owner is another process the inherited descriptors are closed
\* and two empty instances are created.
CreateEpoll ==
    IF epoll_owner_pid_ = getpid
    THEN reg
    ELSE [e \in EpollTypes |-> [f \in Fds |-> NoReg]]

\* epoll_ctl(EPOLL_CTL_DEL) succeeds iff the fd is in the interest list.
DelOk(inst, fd) == CreateEpoll[inst][fd] # NoReg

InitCore ==
    /\ state_ = [t \in Tasks |-> "running"]
    /\ io_block_id_ = [t \in Tasks |-> 0]
    /\ wait_successful_ = [t \in Tasks |-> 0]
    /\ io_block_timeout_ = [t \in Tasks |-> NoTimeout]
    /\ io_block_timer_ = [t \in Tasks |-> 0]
    /\ wait_fds_ = [t \in Tasks |-> <<>>]
    /\ io_block_lock_ = [t \in Tasks |-> FALSE]
    /\ ref = [t \in Tasks |-> InitRef]
    /\ wait_tasks_ = {}
    /\ reg = [e \in EpollTypes |-> [f \in Fds |-> NoReg]]
    /\ timer = [t \in Tasks |-> [g \in BlockIds |-> "none"]]
    /\ epoll_lock_ = 0
    /\ epollwait_tasks_ = {}
    /\ epoll_owner_pid_ = 0
    /\ pid = 1
    /\ ss = [t \in Tasks |-> [g \in BlockIds |-> NoSS]]
    /\ cn = [a \in Actors |-> NoCancel]
    /\ wl = [w \in WaitThreads |-> NoWaitLoop]
    /\ resumes = [t \in Tasks |-> [g \in BlockIds |-> 0]]
    /\ resumer = [t \in Tasks |-> [g \in BlockIds |-> "none"]]
    /\ delivered = [t \in Tasks |-> [g \in BlockIds |-> 0]]
    /\ epollwait_ms_ = 0
    /\ delete_list_ = {}
    /\ destroyed = {}
    /\ epoll_fds_ = [e \in EpollTypes |-> NoFd]
    /\ epoll_create_lock_ = 0
    /\ open_fds = {}
    /\ ce = [th \in Actors |-> NoCreate]

\* The state after construction, with the scheduler option max_sleep_ms at
\* its largest value.
Init ==
    /\ InitCore
    /\ max_sleep_ms = MaxSleepMs

(* -------------------------- scheduler stubs ---------------------------- *)
\* g_Scheduler.AddTaskRunnable(tk), called by `who`; the history variables
\* record the call against the block the task is in.
AddTaskRunnable(t, who) ==
    /\ state_' = [state_ EXCEPT ![t] = "runnable"]
    /\ resumes' = [resumes EXCEPT ![t][io_block_id_[t]] = @ + 1]
    /\ resumer' = [resumer EXCEPT ![t][io_block_id_[t]] = who]

(* ------------------------------ the task ------------------------------- *)
\* IoWait::CoSwitch, on the task's own stack: the task is running (it was
\* never blocked, or AddTaskRunnable put it back on a run queue and the
\* scheduler picked it).  The scheduler then calls SchedulerSwitch(tk),
\* whose activation starts at pc "begin".
CoSwitch(t, fdsts, timeout_ms) ==
    /\ state_[t] \in {"running", "runnable"}
    /\ io_block_id_[t] < MaxBlocks
    /\ LET id == io_block_id_[t] + 1 IN
        /\ io_block_id_' = [io_block_id_ EXCEPT ![t] = id]
        /\ state_' = [state_ EXCEPT ![t] = "io_block"]
        /\ wait_successful_' = [wait_successful_ EXCEPT ![t] = 0]
        /\ io_block_timeout_' = [io_block_timeout_ EXCEPT ![t] = timeout_ms]
        /\ io_block_timer_' = [io_block_timer_ EXCEPT ![t] = 0]
        /\ wait_fds_' = [wait_fds_ EXCEPT ![t] = fdsts]
        /\ ss' = [ss EXCEPT ![t][id] = [NoSS EXCEPT !.pc = "begin"]]
    /\ UNCHANGED <<io_block_lock_, ref, wait_tasks_, reg, timer, epoll_lock_,
                   epollwait_tasks_, epoll_owner_pid_, pid, sideVars, lifeVars, cn, wl, histVars>>

(* --------------------------- SchedulerSwitch --------------------------- *)
\* Lines 67-78: take io_block_lock_ for a multi-fd list, read the id, take
\* the RefGuard, push the task into the wait-set; the range-for of line 79
\* fixes begin()/end() of wait_fds_ here.
SS_Begin(t, g) ==
    /\ ss[t][g].pc = "begin"
    /\ Len(wait_fds_[t]) > 1 => ~io_block_lock_[t]
    /\ io_block_lock_' = [io_block_lock_ EXCEPT ![t] = @ \/ Len(wait_fds_[t]) > 1]
    /\ ref' = [ref EXCEPT ![t] = @ + 1]
    /\ wait_tasks_' = wait_tasks_ \cup {t}
    /\ ss' = [ss EXCEPT ![t][g] = [pc |-> "loop", id |-> io_block_id_[t], i |-> 1,
                                   ok |-> FALSE, dup |-> FALSE,
                                   held |-> 0,
                                   rollback |-> <<>>, j |-> 0,
                                   fds |-> wait_fds_[t],
                                   locked |-> Len(wait_fds_[t]) > 1]]
    /\ UNCHANGED <<state_, io_block_id_, wait_successful_, io_block_timeout_,
                   io_block_timer_, wait_fds_, reg, timer, epoll_lock_,
                   epollwait_tasks_, epoll_owner_pid_, pid, sideVars, lifeVars, cn, wl, histVars>>

\* Lines 81-114: one iteration of the registration loop.  IncrementRef, then
\* EPOLL_CTL_ADD: it fails with EEXIST when the fd is already in the
\* instance, with another error for a bad fd (DecrementRef in both cases),
\* and otherwise installs the cookie &fdst.epoll_ptr = (tk, id) one-shot.
SS_Add(t, g) ==
    /\ ss[t][g].pc = "loop"
    /\ ss[t][g].i <= Len(ss[t][g].fds)
    /\ LET s == ss[t][g]
           fdst == s.fds[s.i]
           epoll_fd == ChooseEpoll(fdst.event)
       IN  /\ epoll_owner_pid_' = getpid
           /\ IF fdst.fd \in BadFds
              THEN /\ ss' = [ss EXCEPT ![t][g].i = @ + 1]
                   /\ reg' = CreateEpoll
                   /\ UNCHANGED ref
              ELSE IF CreateEpoll[epoll_fd][fdst.fd] # NoReg
              THEN /\ ss' = [ss EXCEPT ![t][g].pc = IF s.rollback = <<>> THEN "finish"
                                                     ELSE "rollback",
                                       ![t][g].j = 1,
                                       ![t][g].ok = FALSE,
                                       ![t][g].dup = TRUE]
                   /\ reg' = CreateEpoll
                   /\ UNCHANGED ref
              ELSE /\ reg' = [CreateEpoll EXCEPT ![epoll_fd][fdst.fd] =
                                  [tk |-> t, id |-> g, st |-> "armed"]]
                   /\ ref' = [ref EXCEPT ![t] = @ + 1]
                   /\ ss' = [ss EXCEPT ![t][g].i = @ + 1,
                                       ![t][g].ok = TRUE,
                                       ![t][g].held = @ + 1,
                                       ![t][g].rollback = Append(@, fdst)]
    /\ UNCHANGED <<state_, io_block_id_, wait_successful_, io_block_timeout_,
                   io_block_timer_, wait_fds_, io_block_lock_, wait_tasks_, timer,
                   epoll_lock_, epollwait_tasks_, pid, sideVars, lifeVars, cn, wl, histVars>>

\* Lines 90-101: after EEXIST (ok = false, line 100), one EPOLL_CTL_DEL of
\* the rollback list; a successful DEL is followed by DecrementRef.  After
\* the last one the loop is left.
SS_Rollback(t, g) ==
    /\ ss[t][g].pc = "rollback"
    /\ LET s == ss[t][g]
           fd_pair == s.rollback[s.j]
           epoll_fd == ChooseEpoll(fd_pair.event)
       IN  /\ epoll_owner_pid_' = getpid
           /\ IF DelOk(epoll_fd, fd_pair.fd)
              THEN /\ reg' = [CreateEpoll EXCEPT ![epoll_fd][fd_pair.fd] = NoReg]
                   /\ ref' = [ref EXCEPT ![t] = @ - 1]
              ELSE /\ reg' = CreateEpoll
                   /\ UNCHANGED ref
           /\ ss' = [ss EXCEPT ![t][g].j = @ + 1,
                               ![t][g].held = IF DelOk(epoll_fd, fd_pair.fd)
                                              THEN @ - 1 ELSE @,
                               ![t][g].pc = IF s.j = Len(s.rollback) THEN "finish"
                                            ELSE "rollback"]
    /\ UNCHANGED <<state_, io_block_id_, wait_successful_, io_block_timeout_,
                   io_block_timer_, wait_fds_, io_block_lock_, wait_tasks_, timer,
                   epoll_lock_, epollwait_tasks_, pid, sideVars, destroyed, cn, wl, histVars>>
    /\ delete_list_' = PushDeleteList(ref')

\* Lines 121-138: after the loop.  !ok: erase from the wait-set and, if that
\* wins, AddTaskRunnable.  ok and a timeout: IncrementRef and arm the timer
\* whose callback is Cancel(tk, id); DecrementRef.  Then the RefGuard and the
\* lock are released.
SS_Finish(t, g) ==
    /\ \/ ss[t][g].pc = "finish"
       \/ ss[t][g].pc = "loop" /\ ss[t][g].i > Len(ss[t][g].fds)
    /\ LET s == ss[t][g] IN
        /\ IF ~s.ok
           THEN /\ wait_tasks_' = wait_tasks_ \ {t}
                /\ IF t \in wait_tasks_
                   THEN AddTaskRunnable(t, "switch")
                   ELSE UNCHANGED <<state_, resumes, resumer>>
                /\ ref' = [ref EXCEPT ![t] = @ - 1]
                /\ UNCHANGED <<timer, io_block_timer_>>
           ELSE IF io_block_timeout_[t] # NoTimeout
           THEN /\ timer' = [timer EXCEPT ![t][s.id] = "armed"]
                /\ io_block_timer_' = [io_block_timer_ EXCEPT ![t] = s.id]
                /\ ref' = [ref EXCEPT ![t] = @ + 1 - 1]
                /\ UNCHANGED <<wait_tasks_, state_, resumes, resumer>>
           ELSE /\ ref' = [ref EXCEPT ![t] = @ - 1]
                /\ UNCHANGED <<wait_tasks_, state_, resumes, resumer, timer,
                               io_block_timer_>>
        /\ io_block_lock_' = [io_block_lock_ EXCEPT ![t] = IF s.locked THEN FALSE ELSE @]
        /\ ss' = [ss EXCEPT ![t][g] = [NoSS EXCEPT !.pc = "done", !.dup = s.dup,
                                                   !.held = s.held]]
    /\ UNCHANGED <<io_block_id_, wait_successful_, io_block_timeout_, wait_fds_, reg,
                   epoll_lock_, epollwait_tasks_, epoll_owner_pid_, pid, sideVars, destroyed, cn, wl,
                   delivered>>
    /\ delete_list_' = PushDeleteList(ref')

(* ------------------------------- Cancel -------------------------------- *)
\* What the caller of Cancel does when Cancel returns.  The timer callback
\* of lines 131-135 goes on with tk->DecrementRef() and is then consumed; the
\* other callers just continue.
CancelReturn(a, tk, id, src) ==
    /\ cn' = [cn EXCEPT ![a] = NoCancel]
    /\ IF src = "timer"
       THEN /\ ref' = [ref EXCEPT ![tk] = @ - 1]
            /\ timer' = [timer EXCEPT ![tk][id] = "done"]
       ELSE UNCHANGED <<ref, timer>>

\* Variant of CancelCall without the generation check of lines 145-146.
CancelCall_NoCheck(a, tk, id, src) ==
    /\ cn' = [cn EXCEPT ![a] = [NoCancel EXCEPT !.pc = "erase", !.tk = tk,
                                                !.id = id, !.src = src]]
    /\ IF src = "timer"
       THEN timer' = [timer EXCEPT ![tk][id] = "running"]
       ELSE UNCHANGED timer
    /\ UNCHANGED ref

\* Lines 140-146: the call Cancel(tk, id) by thread a and its generation
\* check; a mismatch returns at once.
CancelCall(a, tk, id, src) ==
    IF io_block_id_[tk] # id
    THEN CancelReturn(a, tk, id, src)
    ELSE /\ cn' = [cn EXCEPT ![a] = [NoCancel EXCEPT !.pc = "erase", !.tk = tk,
                                                     !.id = id, !.src = src]]
         /\ IF src = "timer"
            THEN timer' = [timer EXCEPT ![tk][id] = "running"]
            ELSE UNCHANGED timer
         /\ UNCHANGED ref

\* Variant of Cancel_Erase that ignores the result of erase: the caller goes
\* on to the teardown whether or not it removed the task.
Cancel_Erase_NoTest(a) ==
    /\ cn[a].pc = "erase"
    /\ wait_tasks_' = wait_tasks_ \ {cn[a].tk}
    /\ cn' = IF Len(wait_fds_[cn[a].tk]) > 1
             THEN [cn EXCEPT ![a].pc = "lock"]
             ELSE [cn EXCEPT ![a].pc = "del", ![a].i = 1,
                             ![a].fds = wait_fds_[cn[a].tk]]
    /\ UNCHANGED <<state_, io_block_id_, wait_successful_, io_block_timeout_,
                   io_block_timer_, wait_fds_, io_block_lock_, reg, epoll_lock_,
                   epollwait_tasks_, epoll_owner_pid_, pid, sideVars, lifeVars, ss, wl, histVars, ref, timer>>

\* Line 148: wait_tasks_.erase(tk); losing it returns.  The winner goes on
\* to lock.lock() for a multi-fd list, and straight to the teardown loop
\* otherwise.
Cancel_Erase(a) ==
    /\ cn[a].pc = "erase"
    /\ LET k == cn[a] IN
       IF k.tk \in wait_tasks_
       THEN /\ wait_tasks_' = wait_tasks_ \ {k.tk}
            /\ cn' = IF Len(wait_fds_[k.tk]) > 1
                     THEN [cn EXCEPT ![a].pc = "lock"]
                     ELSE [cn EXCEPT ![a].pc = "del", ![a].i = 1,
                                     ![a].fds = wait_fds_[k.tk]]
            /\ UNCHANGED <<ref, timer>>
       ELSE /\ CancelReturn(a, k.tk, k.id, k.src)
            /\ UNCHANGED wait_tasks_
    /\ UNCHANGED <<state_, io_block_id_, wait_successful_, io_block_timeout_,
                   io_block_timer_, wait_fds_, io_block_lock_, reg, epoll_lock_,
                   epollwait_tasks_, epoll_owner_pid_, pid, sideVars, destroyed, ss, wl, histVars>>
    /\ delete_list_' = PushDeleteList(ref')

\* Lines 151-156: lock.lock() on io_block_lock_ (multi-fd list); the
\* range-for then fixes begin()/end() of wait_fds_.
Cancel_Lock(a) ==
    /\ cn[a].pc = "lock"
    /\ LET tk == cn[a].tk IN
        /\ ~io_block_lock_[tk]
        /\ io_block_lock_' = [io_block_lock_ EXCEPT ![tk] = TRUE]
        /\ cn' = [cn EXCEPT ![a].pc = "del", ![a].i = 1, ![a].fds = wait_fds_[tk],
                            ![a].locked = TRUE]
    /\ UNCHANGED <<state_, io_block_id_, wait_successful_, io_block_timeout_,
                   io_block_timer_, wait_fds_, ref, wait_tasks_, reg, timer, epoll_lock_,
                   epollwait_tasks_, epoll_owner_pid_, pid, sideVars, lifeVars, ss, wl, histVars>>

\* Lines 158-164: one EPOLL_CTL_DEL of the teardown loop; a successful DEL
\* is followed by DecrementRef.
Cancel_Del(a) ==
    /\ cn[a].pc = "del"
    /\ cn[a].i <= Len(cn[a].fds)
    /\ LET k == cn[a]
           fdst == k.fds[k.i]
           epoll_fd == ChooseEpoll(fdst.event)
       IN  /\ IF DelOk(epoll_fd, fdst.fd)
              THEN /\ reg' = [CreateEpoll EXCEPT ![epoll_fd][fdst.fd] = NoReg]
                   /\ ref' = [ref EXCEPT ![k.tk] = @ - 1]
              ELSE /\ reg' = CreateEpoll
                   /\ UNCHANGED ref
           /\ cn' = [cn EXCEPT ![a].i = @ + 1]
           /\ epoll_owner_pid_' = getpid
    /\ UNCHANGED <<state_, io_block_id_, wait_successful_, io_block_timeout_,
                   io_block_timer_, wait_fds_, io_block_lock_, wait_tasks_, timer,
                   epoll_lock_, epollwait_tasks_, pid, sideVars, destroyed, ss, wl, histVars>>
    /\ delete_list_' = PushDeleteList(ref')

\* Line 167: AddTaskRunnable, then the lock is released and Cancel returns.
Cancel_Resume(a) ==
    /\ cn[a].pc = "del"
    /\ cn[a].i > Len(cn[a].fds)
    /\ LET k == cn[a] IN
        /\ AddTaskRunnable(k.tk, k.src)
        /\ io_block_lock_' = [io_block_lock_ EXCEPT ![k.tk] = IF k.locked THEN FALSE ELSE @]
        /\ CancelReturn(a, k.tk, k.id, k.src)
    /\ UNCHANGED <<io_block_id_, wait_successful_, io_block_timeout_, io_block_timer_,
                   wait_fds_, wait_tasks_, reg, epoll_lock_, epollwait_tasks_,
                   epoll_owner_pid_, pid, sideVars, destroyed, ss, wl, delivered>>
    /\ delete_list_' = PushDeleteList(ref')

\* A thread other than the pump calls Cancel(tk, id) directly.
ExplicitCancel(a, tk, id) ==
    /\ a \in CancelThreads
    /\ cn[a].pc = "none"
    /\ CancelCall(a, tk, id, "explicit")
    /\ UNCHANGED <<state_, io_block_id_, wait_successful_, io_block_timeout_,
                   io_block_timer_, wait_fds_, io_block_lock_, wait_tasks_, reg,
                   epoll_lock_, epollwait_tasks_, epoll_owner_pid_, pid, sideVars, destroyed, ss, wl, histVars>>
    /\ delete_list_' = PushDeleteList(ref')

(* ------------------------------ WaitLoop ------------------------------- *)
TimersIn(st) == {tg \in Tasks \X BlockIds : timer[tg[1]][tg[2]] = st}

\* Lines 173-184: move the expired callbacks from timer_mgr_ into
\* timeout_list_ and count them in c.
WL_Drain(w) ==
    /\ wl[w].pc \in {"idle", "returned"}
    /\ timer' = [t \in Tasks |-> [g \in BlockIds |->
                    IF timer[t][g] = "expired" THEN "listed" ELSE timer[t][g]]]
    /\ wl' = [wl EXCEPT ![w] = [NoWaitLoop EXCEPT !.pc = "trylock",
                                                  !.c = Cardinality(TimersIn("expired"))]]
    /\ UNCHANGED <<taskVars, wait_tasks_, reg, epoll_lock_, epollwait_tasks_,
                   epoll_owner_pid_, pid, sideVars, lifeVars, ss, cn, histVars>>

\* Variant of WL_TryLock in which try_lock never fails.
WL_TryLock_Always(w) ==
    /\ wl[w].pc = "trylock"
    /\ epoll_lock_' = w
    /\ wl' = [wl EXCEPT ![w].pc = IF IsEpollCreated THEN "wait0" ELSE "swap",
                        ![w].got = TRUE]
    /\ UNCHANGED <<taskVars, wait_tasks_, reg, timer, epollwait_tasks_,
                   epoll_owner_pid_, pid, sideVars, lifeVars, ss, cn, histVars>>

\* Lines 186-192: try_lock of epoll_lock_.  Failing it returns c ? c : -1;
\* holding it the thread goes on to the epoll instances if they exist.
WL_TryLock(w) ==
    /\ wl[w].pc = "trylock"
    /\ IF epoll_lock_ = 0
       THEN /\ epoll_lock_' = w
            /\ wl' = [wl EXCEPT ![w].pc = IF IsEpollCreated THEN "wait0" ELSE "swap",
                                ![w].got = TRUE]
       ELSE /\ wl' = [wl EXCEPT ![w].pc = "returned",
                                ![w].ret = IF wl[w].c # 0 THEN wl[w].c ELSE -1]
            /\ UNCHANGED epoll_lock_
    /\ UNCHANGED <<taskVars, wait_tasks_, reg, timer, epollwait_tasks_,
                   epoll_owner_pid_, pid, sideVars, lifeVars, ss, cn, histVars>>

WaitPc(epoll_type) == IF epoll_type = EpollRead THEN "wait0" ELSE "wait1"
ProcPc(epoll_type) == IF epoll_type = EpollRead THEN "proc0" ELSE "proc1"
NextPc(epoll_type) == IF epoll_type = EpollRead THEN "wait1" ELSE "cancels"

\* The events epoll_wait returns from an instance: the cookie of every
\* registration that became ready.
ReadyEvents(epoll_type) ==
    {[tk |-> reg[epoll_type][f].tk, id |-> reg[epoll_type][f].id, fd |-> f] :
        f \in {x \in Fds : reg[epoll_type][x].st = "ready"}}

\* Line 199: epoll_wait on one instance returned n >= 0 events into evs; a
\* one-shot registration that fired stays in the interest list, disarmed.
WL_EpollWait(w, epoll_type) ==
    /\ wl[w].pc = WaitPc(epoll_type)
    /\ LET evs == ReadyEvents(epoll_type) IN
        /\ reg' = [reg EXCEPT ![epoll_type] = [f \in Fds |->
                      IF reg[epoll_type][f].st = "ready"
                      THEN [reg[epoll_type][f] EXCEPT !.st = "fired"]
                      ELSE reg[epoll_type][f]]]
        /\ wl' = [wl EXCEPT ![w].pc = ProcPc(epoll_type), ![w].evs = evs,
                            ![w].epoll_n = @ + Cardinality(evs)]
        /\ delivered' = [t \in Tasks |-> [g \in BlockIds |->
                            delivered[t][g] +
                            Cardinality({e \in evs : e.tk = t /\ e.id = g})]]
    /\ UNCHANGED <<taskVars, wait_tasks_, timer, epoll_lock_, epollwait_tasks_,
                   epoll_owner_pid_, pid, sideVars, lifeVars, ss, cn, resumes, resumer>>

\* Lines 200-205: epoll_wait failed with an error other than EINTR; the
\* instance is skipped.  (EINTR retries the same call: no step.)
WL_EpollWaitError(w, epoll_type) ==
    /\ wl[w].pc = WaitPc(epoll_type)
    /\ wl' = [wl EXCEPT ![w].pc = NextPc(epoll_type)]
    /\ UNCHANGED <<taskVars, wait_tasks_, reg, timer, epoll_lock_, epollwait_tasks_,
                   epoll_owner_pid_, pid, sideVars, lifeVars, ss, cn, histVars>>

\* Lines 209-222: for every returned event, ++wait_successful_ of the task
\* the cookie points at and insert {tk, io_block_id} into epollwait_tasks_.
WL_Events(w, epoll_type) ==
    /\ wl[w].pc = ProcPc(epoll_type)
    /\ wait_successful_' = [t \in Tasks |->
            wait_successful_[t] + Cardinality({e \in wl[w].evs : e.tk = t})]
    /\ epollwait_tasks_' = epollwait_tasks_ \cup
            {[tk |-> e.tk, id |-> e.id] : e \in wl[w].evs}
    /\ wl' = [wl EXCEPT ![w].pc = NextPc(epoll_type), ![w].evs = {}]
    /\ UNCHANGED <<state_, io_block_id_, io_block_timeout_, io_block_timer_, wait_fds_,
                   io_block_lock_, ref, wait_tasks_, reg, timer, epoll_lock_,
                   epoll_owner_pid_, pid, sideVars, lifeVars, ss, cn, histVars>>

\* Lines 225-226: the next Cancel(st.tk, st.id) of the loop over
\* epollwait_tasks_ (an entry leaves the set when its Cancel is called; the
\* code clears the set after the loop).
WL_CancelEvent(w, st) ==
    /\ wl[w].pc = "cancels"
    /\ cn[w].pc = "none"
    /\ st \in epollwait_tasks_
    /\ epollwait_tasks_' = epollwait_tasks_ \ {st}
    /\ CancelCall(w, st.tk, st.id, "event")
    /\ UNCHANGED <<state_, io_block_id_, wait_successful_, io_block_timeout_,
                   io_block_timer_, wait_fds_, io_block_lock_, wait_tasks_, reg,
                   epoll_lock_, epoll_owner_pid_, pid, sideVars, destroyed, ss, wl, histVars>>
    /\ delete_list_' = PushDeleteList(ref')

\* Lines 227-234: the loop is over; timeout_list_ is swapped into the local
\* list.
WL_Swap(w) ==
    /\ \/ wl[w].pc = "swap"
       \/ wl[w].pc = "cancels" /\ cn[w].pc = "none" /\ epollwait_tasks_ = {}
    /\ timer' = [t \in Tasks |-> [g \in BlockIds |->
                    IF timer[t][g] = "listed" THEN "taken" ELSE timer[t][g]]]
    /\ wl' = [wl EXCEPT ![w].pc = "callbacks"]
    /\ UNCHANGED <<taskVars, wait_tasks_, reg, epoll_lock_, epollwait_tasks_,
                   epoll_owner_pid_, pid, sideVars, lifeVars, ss, cn, histVars>>

\* Lines 236-237: run the next callback of the local list: Cancel(tk, id).
WL_Callback(w, tk, id) ==
    /\ wl[w].pc = "callbacks"
    /\ cn[w].pc = "none"
    /\ timer[tk][id] = "taken"
    /\ CancelCall(w, tk, id, "timer")
    /\ UNCHANGED <<state_, io_block_id_, wait_successful_, io_block_timeout_,
                   io_block_timer_, wait_fds_, io_block_lock_, wait_tasks_, reg,
                   epoll_lock_, epollwait_tasks_, epoll_owner_pid_, pid, sideVars, destroyed, ss, wl,
                   histVars>>
    /\ delete_list_' = PushDeleteList(ref')

\* Variant of WL_Return that leaves the loop of lines 236-237 before the
\* local list is exhausted.
WL_Return_Early(w) ==
    /\ wl[w].pc = "callbacks"
    /\ cn[w].pc = "none"
    /\ epoll_lock_' = 0
    /\ wl' = [wl EXCEPT ![w].pc = "returned",
                        ![w].ret = wl[w].epoll_n + wl[w].c]
    /\ UNCHANGED <<taskVars, wait_tasks_, reg, timer, epollwait_tasks_,
                   epoll_owner_pid_, pid, sideVars, ss, cn, histVars>>
    /\ destroyed' = destroyed \cup delete_list_
    /\ delete_list_' = {}

\* Variant of WL_Return that returns epoll_n alone.
WL_Return_NoTimers(w) ==
    /\ wl[w].pc = "callbacks"
    /\ cn[w].pc = "none"
    /\ TimersIn("taken") = {}
    /\ epoll_lock_' = 0
    /\ wl' = [wl EXCEPT ![w].pc = "returned", ![w].ret = wl[w].epoll_n]
    /\ UNCHANGED <<taskVars, wait_tasks_, reg, timer, epollwait_tasks_,
                   epoll_owner_pid_, pid, sideVars, ss, cn, histVars>>
    /\ destroyed' = destroyed \cup delete_list_
    /\ delete_list_' = {}

\* Lines 242-252: all callbacks ran; the deferred tasks are destroyed, the
\* lock is released and epoll_n + c is returned.
WL_Return(w) ==
    /\ wl[w].pc = "callbacks"
    /\ cn[w].pc = "none"
    /\ TimersIn("taken") = {}
    /\ epoll_lock_' = 0
    /\ wl' = [wl EXCEPT ![w].pc = "returned",
                        ![w].ret = wl[w].epoll_n + wl[w].c]
    /\ UNCHANGED <<taskVars, wait_tasks_, reg, timer, epollwait_tasks_,
                   epoll_owner_pid_, pid, sideVars, ss, cn, histVars>>
    /\ destroyed' = destroyed \cup delete_list_
    /\ delete_list_' = {}

(* ------------------------- the blocking quantum ------------------------ *)
coreVars == <<taskVars, wait_tasks_, reg, timer, epoll_lock_, epollwait_tasks_,
              epoll_owner_pid_, pid, ss, cn, wl, histVars, lifeVars, createVars>>

Min(a, b) == IF a < b THEN a ELSE b

\* Variant of DelayEventWaitTime without the cap.
DelayEventWaitTime_NoCap ==
    /\ epollwait_ms_' = epollwait_ms_ + 1
    /\ UNCHANGED <<coreVars, max_sleep_ms>>

\* IoWait::DelayEventWaitTime
DelayEventWaitTime ==
    /\ epollwait_ms_' = Min(epollwait_ms_ + 1, max_sleep_ms)
    /\ UNCHANGED <<coreVars, max_sleep_ms>>

\* IoWait::ResetEventWaitTime
ResetEventWaitTime ==
    /\ epollwait_ms_' = 0
    /\ UNCHANGED <<coreVars, max_sleep_ms>>

(* ---------------------------- environment ------------------------------ *)
\* The kernel: an armed registration becomes ready.
Ready(epoll_type, fd) ==
    /\ reg[epoll_type][fd].st = "armed"
    /\ reg' = [reg EXCEPT ![epoll_type][fd].st = "ready"]
    /\ UNCHANGED <<taskVars, wait_tasks_, timer, epoll_lock_, epollwait_tasks_,
                   epoll_owner_pid_, pid, sideVars, lifeVars, ss, cn, wl, histVars>>

\* Time passes the deadline of an armed timer.
Tick(tk, id) ==
    /\ timer[tk][id] = "armed"
    /\ timer' = [timer EXCEPT ![tk][id] = "expired"]
    /\ UNCHANGED <<taskVars, wait_tasks_, reg, epoll_lock_, epollwait_tasks_,
                   epoll_owner_pid_, pid, sideVars, lifeVars, ss, cn, wl, histVars>>

(* --------------------------- specification ----------------------------- *)
\* The steps of the tasks T (each blocking at most B times), of their
\* SchedulerSwitch activations, of the Cancel activations of the threads A,
\* of the threads X calling Cancel directly, of the threads W calling
\* WaitLoop, and of the environment.
TaskStep(T, B) ==
    \E t \in T, fdsts \in FdLists, timeout_ms \in Timeouts :
        io_block_id_[t] < B /\ CoSwitch(t, fdsts, timeout_ms)

SwitchStep(T) ==
    \E t \in T, g \in BlockIds :
        \/ SS_Begin(t, g)
        \/ SS_Add(t, g)
        \/ SS_Rollback(t, g)
        \/ SS_Finish(t, g)

CancelStep(A) ==
    \E a \in A :
        \/ Cancel_Erase(a)
        \/ Cancel_Lock(a)
        \/ Cancel_Del(a)
        \/ Cancel_Resume(a)

ExplicitStep(X, T) ==
    \E a \in X, t \in T, id \in BlockIds : ExplicitCancel(a, t, id)

WaitLoopStep(W) ==
    \E w \in W :
        \/ WL_Drain(w)
        \/ WL_TryLock(w)
        \/ \E e \in EpollTypes : WL_EpollWait(w, e)
        \/ \E e \in EpollTypes : WL_EpollWaitError(w, e)
        \/ \E e \in EpollTypes : WL_Events(w, e)
        \/ \E st \in epollwait_tasks_ : WL_CancelEvent(w, st)
        \/ WL_Swap(w)
        \/ \E t \in Tasks, g \in BlockIds : WL_Callback(w, t, g)
        \/ WL_Return(w)

EnvStep ==
    \/ \E e \in EpollTypes, f \in Fds : Ready(e, f)
    \/ \E t \in Tasks, g \in BlockIds : Tick(t, g)

\* Spec: one task blocking MaxBlocks times, one thread pumping WaitLoop, and
\* the threads calling Cancel directly.
OneTask == {1}
OnePump == {1}

Next ==
    \/ TaskStep(OneTask, MaxBlocks)
    \/ SwitchStep(OneTask)
    \/ CancelStep(OnePump \cup CancelThreads)
    \/ ExplicitStep(CancelThreads, OneTask)
    \/ WaitLoopStep(OnePump)
    \/ EnvStep

Spec == Init /\ [][Next]_vars

\* SpecPump: the same task with every WaitLoop thread pumping concurrently
\* and no direct Cancel calls.
NextPump ==
    \/ TaskStep(OneTask, MaxBlocks)
    \/ SwitchStep(OneTask)
    \/ CancelStep(WaitThreads)
    \/ WaitLoopStep(WaitThreads)
    \/ EnvStep

SpecPump == Init /\ [][NextPump]_vars

\* SpecTwo: every task blocking once, possibly on the same fds, with one
\* thread pumping WaitLoop and no direct Cancel calls.
NextTwo ==
    \/ TaskStep(Tasks, 1)
    \/ SwitchStep(Tasks)
    \/ CancelStep(OnePump)
    \/ WaitLoopStep(OnePump)
    \/ EnvStep

SpecTwo == Init /\ [][NextTwo]_vars

\* fork(): the threads go on in a process with a new id, whose memory is a
\* copy and whose epoll descriptors are inherited.  The fork is taken
\* between operations of the core: no SchedulerSwitch, Cancel or WaitLoop
\* activation is under way.
Fork ==
    /\ pid <= MaxForks
    /\ \A t \in Tasks, g \in BlockIds : ss[t][g].pc \in {"idle", "done"}
    /\ \A a \in Actors : cn[a].pc = "none"
    /\ \A w \in WaitThreads : wl[w].pc \in {"idle", "returned"}
    /\ \A th \in Actors : ce[th].pc = "idle"
    /\ pid' = pid + 1
    /\ UNCHANGED <<taskVars, wait_tasks_, reg, timer, epoll_lock_, epollwait_tasks_,
                   epoll_owner_pid_, ss, cn, wl, histVars, sideVars, lifeVars>>

\* SpecFork: one task, one thread pumping WaitLoop, and the process forking.
NextFork ==
    \/ TaskStep(OneTask, MaxBlocks)
    \/ SwitchStep(OneTask)
    \/ CancelStep(OnePump)
    \/ WaitLoopStep(OnePump)
    \/ EnvStep
    \/ Fork

SpecFork == Init /\ [][NextFork]_vars

\* The task returns from its function for good and its owner drops the
\* reference it has held since the task was created.
TaskExit(t) ==
    /\ state_[t] \in {"running", "runnable"}
    /\ ref[t] > 0
    /\ state_' = [state_ EXCEPT ![t] = "done"]
    /\ ref' = [ref EXCEPT ![t] = @ - 1]
    /\ delete_list_' = PushDeleteList(ref')
    /\ UNCHANGED <<io_block_id_, wait_successful_, io_block_timeout_, io_block_timer_,
                   wait_fds_, io_block_lock_, wait_tasks_, reg, timer, epoll_lock_,
                   epollwait_tasks_, epoll_owner_pid_, pid, sideVars, destroyed, ss, cn,
                   wl, histVars>>

\* Task t blocks, for the B-th time at most, on a list of L with a timeout
\* of TO.
BlockStep(t, B, L, TO) ==
    \E fdsts \in L, timeout_ms \in TO :
        io_block_id_[t] < B /\ CoSwitch(t, fdsts, timeout_ms)

\* SpecDestroy: task 1 blocking once on fd 10 without a timeout, task 2
\* blocking up to MaxBlocks times on fd 10, alone or listed twice, with or
\* without a timeout; one thread pumping WaitLoop; and the tasks exiting.
NextDestroy ==
    \/ BlockStep(1, 1, {<<Fd(10, EPOLLIN)>>}, {NoTimeout})
    \/ BlockStep(2, MaxBlocks,
                 {<<Fd(10, EPOLLIN)>>, <<Fd(10, EPOLLIN), Fd(10, EPOLLIN)>>}, Timeouts)
    \/ SwitchStep(Tasks)
    \/ CancelStep(OnePump)
    \/ WaitLoopStep(OnePump)
    \/ EnvStep
    \/ \E t \in Tasks : TaskExit(t)

SpecDestroy == Init /\ [][NextDestroy]_vars

(* ------------- ChooseEpoll / GetEpoll / CreateEpoll, by line ------------ *)
\* The state the steps below leave alone.
restVars == <<taskVars, wait_tasks_, reg, timer, epoll_lock_, epollwait_tasks_, pid,
              ss, cn, wl, histVars, lifeVars, epollwait_ms_, max_sleep_ms>>

\* The descriptor epoll_create returns to process p for instance i, and the
\* process that created descriptor d.
Desc(p, i) == 2 * p + i
Creator(d) == d \div 2

\* Lines 265-267 / 271-273: thread th calls GetEpoll(type), or ChooseEpoll
\* with an event of that instance, which starts with CreateEpoll().
CE_Call(th, type) ==
    /\ ce[th].pc = "idle"
    /\ ce' = [ce EXCEPT ![th] = [NoCreate EXCEPT !.pc = "check", !.type = type]]
    /\ UNCHANGED <<restVars, epoll_owner_pid_, epoll_fds_, epoll_create_lock_, open_fds>>

\* Lines 279-280: the unlocked test of epoll_owner_pid_.
CE_Check(th) ==
    /\ ce[th].pc = "check"
    /\ ce' = [ce EXCEPT ![th].pc = IF epoll_owner_pid_ = getpid THEN "read" ELSE "lock"]
    /\ UNCHANGED <<restVars, epoll_owner_pid_, epoll_fds_, epoll_create_lock_, open_fds>>

\* Line 281: take epoll_create_lock_.
CE_Lock(th) ==
    /\ ce[th].pc = "lock"
    /\ epoll_create_lock_ = 0
    /\ epoll_create_lock_' = th
    /\ ce' = [ce EXCEPT ![th].pc = "recheck"]
    /\ UNCHANGED <<restVars, epoll_owner_pid_, epoll_fds_, open_fds>>

\* Lines 282-284: the test again under the lock; if the pair is still not
\* this process's, epoll_owner_pid_ = pid is written at once.
CE_Publish(th) ==
    /\ ce[th].pc = "recheck"
    /\ IF epoll_owner_pid_ = getpid
       THEN /\ epoll_create_lock_' = 0
            /\ ce' = [ce EXCEPT ![th].pc = "read"]
            /\ UNCHANGED epoll_owner_pid_
       ELSE /\ epoll_owner_pid_' = getpid
            /\ ce' = [ce EXCEPT ![th].pc = "close", ![th].i = 0]
            /\ UNCHANGED epoll_create_lock_
    /\ UNCHANGED <<restVars, epoll_fds_, open_fds>>

\* Line 289: close(epoll_fds_[i]).
CE_Close(th) ==
    /\ ce[th].pc = "close"
    /\ open_fds' = open_fds \ {epoll_fds_[ce[th].i]}
    /\ ce' = [ce EXCEPT ![th].pc = "create"]
    /\ UNCHANGED <<restVars, epoll_owner_pid_, epoll_fds_, epoll_create_lock_>>

\* Lines 290-299: epoll_fds_[i] = epoll_create(...), which succeeds (a
\* failure ends the process); after the second one the lock is released.
CE_Create(th) ==
    /\ ce[th].pc = "create"
    /\ LET i == ce[th].i IN
        /\ epoll_fds_' = [epoll_fds_ EXCEPT ![i] = Desc(getpid, i)]
        /\ open_fds' = open_fds \cup {Desc(getpid, i)}
        /\ IF i = EpollWrite
           THEN /\ epoll_create_lock_' = 0
                /\ ce' = [ce EXCEPT ![th].pc = "read"]
           ELSE /\ ce' = [ce EXCEPT ![th].pc = "close", ![th].i = i + 1]
                /\ UNCHANGED epoll_create_lock_
    /\ UNCHANGED <<restVars, epoll_owner_pid_>>

\* Lines 268 / 274: CreateEpoll has returned; epoll_fds_[type] is read and
\* returned to the caller, who passes it to epoll_ctl or epoll_wait.
CE_Read(th) ==
    /\ ce[th].pc = "read"
    /\ ce' = [ce EXCEPT ![th].pc = "use", ![th].fd = epoll_fds_[ce[th].type]]
    /\ UNCHANGED <<restVars, epoll_owner_pid_, epoll_fds_, epoll_create_lock_, open_fds>>

\* The system call on the returned descriptor is over.
CE_Done(th) ==
    /\ ce[th].pc = "use"
    /\ ce' = [ce EXCEPT ![th] = NoCreate]
    /\ UNCHANGED <<restVars, epoll_owner_pid_, epoll_fds_, epoll_create_lock_, open_fds>>

\* SpecCreate: every thread calling ChooseEpoll / GetEpoll again and again,
\* and the process forking between calls.
NextCreate ==
    \/ \E th \in Actors, type \in EpollTypes : CE_Call(th, type)
    \/ \E th \in Actors :
          \/ CE_Check(th)
          \/ CE_Lock(th)
          \/ CE_Publish(th)
          \/ CE_Close(th)
          \/ CE_Create(th)
          \/ CE_Read(th)
          \/ CE_Done(th)
    \/ Fork

SpecCreate == Init /\ [][NextCreate]_vars

\* SpecKnob: an idle detector calling DelayEventWaitTime and
\* ResetEventWaitTime in any order, for every setting of max_sleep_ms from 0
\* to MaxSleepMs.
InitKnob ==
    /\ InitCore
    /\ max_sleep_ms \in 0..MaxSleepMs

NextKnob ==
    \/ DelayEventWaitTime
    \/ ResetEventWaitTime

SpecKnob == InitKnob /\ [][NextKnob]_vars

\* SpecFair: Spec with the scheduling the code relies on: time passes the
\* deadline of an armed timer, WaitLoop keeps being called and runs on, and
\* every SchedulerSwitch and Cancel activation runs on (a lock is taken when
\* it stays free).  Nothing forces an fd to become ready, a task to block
\* again or a thread to call Cancel.
Fairness ==
    /\ \A t \in OneTask, g \in BlockIds : WF_vars(Tick(t, g))
    /\ WF_vars(WaitLoopStep(OnePump))
    /\ WF_vars(SwitchStep(OneTask))
    /\ \A a \in OnePump \cup CancelThreads : WF_vars(CancelStep({a}))

SpecFair == Spec /\ Fairness

\* SpecTimers: one task blocking once, every WaitLoop thread pumping, under
\* the scheduling the claim about timer callbacks assumes: each thread keeps
\* calling WaitLoop and runs on inside it, and every SchedulerSwitch and
\* Cancel activation runs on.
NextTimers ==
    \/ TaskStep(OneTask, 1)
    \/ SwitchStep(OneTask)
    \/ CancelStep(WaitThreads)
    \/ WaitLoopStep(WaitThreads)
    \/ EnvStep

FairTimers ==
    /\ \A w \in WaitThreads : WF_vars(WaitLoopStep({w})) /\ WF_vars(CancelStep({w}))
    /\ WF_vars(SwitchStep(OneTask))

SpecTimers == Init /\ [][NextTimers]_vars /\ FairTimers

(* ============================== claims ================================= *)
\* The registrations whose cookie points at block g of task t.
RegsOf(t, g) ==
    {ef \in EpollTypes \X Fds : reg[ef[1]][ef[2]].tk = t /\ reg[ef[1]][ef[2]].id = g}

\* Block g of task t has completed: AddTaskRunnable was called for it.
Completed(t, g) == resumes[t][g] > 0

\* Nothing of the core still runs or is armed for task t: no SchedulerSwitch
\* or Cancel activation, no timer callback outstanding, the task not blocked.
Quiescent(t) ==
    /\ state_[t] # "io_block"
    /\ \A g \in BlockIds : ss[t][g].pc \in {"idle", "done"}
    /\ \A g \in BlockIds : timer[t][g] \in {"none", "done"}
    /\ \A a \in Actors : cn[a].tk # t

\* C1: every block is resumed at most once (AddTaskRunnable is called at
\* most once for the block the task is in, whoever the contenders are), and
\* exactly once for every block the task has left.
SingleResumer ==
    \A t \in Tasks, g \in BlockIds :
        /\ resumes[t][g] <= 1
        /\ (g < io_block_id_[t] \/ (g = io_block_id_[t] /\ state_[t] = "runnable"))
              => resumes[t][g] = 1
        /\ (g > io_block_id_[t] \/ (g = io_block_id_[t] /\ state_[t] = "io_block"))
              => resumes[t][g] = 0

\* C1 witness: a block resumed by readiness while its timer callback, a
\* second contender for the same block, is still outstanding.
SingleResumerWitness ==
    \E t \in Tasks, g \in BlockIds :
        /\ resumes[t][g] = 1
        /\ resumer[t][g] = "event"
        /\ timer[t][g] \in {"expired", "listed", "taken"}

\* C2: once every block of a task has completed and nothing of the core is
\* outstanding for it, the reference count is back at its starting value.
RefCountBalance ==
    \A t \in Tasks : Quiescent(t) => ref[t] = InitRef

\* C3: a completed block has no registration in either epoll instance, now
\* or later.
KernelCleanup ==
    \A t \in Tasks, g \in BlockIds : Completed(t, g) => RegsOf(t, g) = {}

\* The references task t is owed: its base count, the RefGuard of every
\* running SchedulerSwitch, one per registration whose cookie points at it
\* and one per timer callback that has not run yet.
Held(t) ==
    InitRef
    + Cardinality({g \in BlockIds : ss[t][g].pc \in {"loop", "rollback", "finish"}})
    + Cardinality({ef \in EpollTypes \X Fds : reg[ef[1]][ef[2]].tk = t})
    + Cardinality({g \in BlockIds :
                      timer[t][g] \in {"armed", "expired", "listed", "taken", "running"}})

\* A Cancel call that found a stale id: it returns at once and leaves the
\* wait-set, both epoll instances, wait_successful_ and the run queue alone.
StaleNoEffect(a) ==
    /\ cn'[a] = NoCancel
    /\ UNCHANGED <<wait_tasks_, reg, wait_successful_, state_, resumes, io_block_lock_>>

GenerationStep ==
    /\ \A t \in Tasks :
          (state_[t] # "io_block" /\ state_'[t] = "io_block")
              => io_block_id_'[t] > io_block_id_[t]
    /\ \A a \in CancelThreads, t \in Tasks, g \in BlockIds :
          (cn[a].pc = "none" /\ io_block_id_[t] # g /\ ExplicitCancel(a, t, g))
              => StaleNoEffect(a) /\ UNCHANGED ref
    /\ \A w \in WaitThreads, st \in epollwait_tasks_ :
          (wl[w].pc = "cancels" /\ io_block_id_[st.tk] # st.id /\ WL_CancelEvent(w, st))
              => StaleNoEffect(w) /\ UNCHANGED ref
    /\ \A w \in WaitThreads, t \in Tasks, g \in BlockIds :
          (timer[t][g] = "taken" /\ io_block_id_[t] # g /\ WL_Callback(w, t, g))
              => /\ StaleNoEffect(w)
                 /\ ref' = [ref EXCEPT ![t] = @ - 1]
                 /\ timer'[t][g] = "done"
                 /\ ref'[t] - Held(t)' = ref[t] - Held(t)
    /\ \A t \in Tasks, g \in BlockIds :
          (timer[t][g] = "none" /\ timer'[t][g] = "armed")
              => ref'[t] - Held(t)' = ref[t] - Held(t)

\* C4: every CoSwitch strictly increases io_block_id_; a Cancel(tk, G)
\* called while io_block_id_ # G returns at its generation check without
\* touching the wait-set, the epoll instances, wait_successful_ or the run
\* queue; and the stale timer callback gives back exactly the reference the
\* armed timer took.
GenerationMonotonic == [][GenerationStep]_vars

\* C4 witness: the timer callback of block 1 is about to run while the task
\* is blocked in block 2 (the stale timeout).
GenerationWitness ==
    \E t \in Tasks :
        /\ timer[t][1] = "taken"
        /\ io_block_id_[t] = 2
        /\ t \in wait_tasks_
        /\ \E w \in WaitThreads : wl[w].pc = "callbacks" /\ cn[w].pc = "none"

\* C5: WaitLoop's handling of a harvested event whose cookie carries an id
\* other than the task's current io_block_id_ changes no state of the task:
\* wait_successful_ of the current block is not incremented.
StaleEventsDropped ==
    [][\A w \in WaitThreads, e \in EpollTypes, t \in Tasks :
          (/\ WL_Events(w, e)
           /\ \A ev \in wl[w].evs : ev.tk = t => ev.id # io_block_id_[t])
              => /\ wait_successful_'[t] = wait_successful_[t]
                 /\ state_'[t] = state_[t]]_vars

\* C6: a multi-fd block resumed by readiness reads, until it blocks again, a
\* wait_successful_ equal to the number of events epoll_wait returned for the
\* block, and never more than the number of its fds.
CountCorrect ==
    \A t \in Tasks :
        (/\ io_block_id_[t] >= 1
         /\ state_[t] = "runnable"
         /\ resumer[t][io_block_id_[t]] = "event"
         /\ Len(wait_fds_[t]) > 1)
            => /\ wait_successful_[t] = delivered[t][io_block_id_[t]]
               /\ wait_successful_[t] <= Len(wait_fds_[t])

\* C7: once SchedulerSwitch has left its loop after an EEXIST, no
\* registration of the block exists (the earlier ones were rolled back, no
\* later one is added), the references it took for them are all given back,
\* no timer is armed for the block, and when it returns the task has been
\* made runnable or the winner of the wait-set erase is on its way to do so.
DuplicateRollback ==
    \A t \in Tasks, g \in BlockIds :
        (ss[t][g].dup /\ ss[t][g].pc \in {"finish", "done"})
            => /\ RegsOf(t, g) = {}
               /\ ss[t][g].held = 0
               /\ timer[t][g] = "none"
               /\ ss[t][g].pc = "done"
                     => \/ resumes[t][g] = 1
                        \/ \E a \in Actors : cn[a].tk = t /\ cn[a].pc \in {"lock", "del"}

\* C8 (a): an add that fails with an error other than EEXIST registers
\* nothing, leaves the reference count and the earlier registrations as they
\* were, and the loop goes on with the next fd.
\* (b): when SchedulerSwitch leaves the loop, ok holds iff an add succeeded
\* and none failed with EEXIST; with ok the task is left blocked, without it
\* the task is no longer in the wait-set.
\* (c): if no add succeeded, the task leaves the wait-set and is made
\* runnable with wait_successful_ = 0.
NonDupErrorStep ==
    \A t \in Tasks, g \in BlockIds :
        /\ (/\ ss[t][g].pc = "loop"
            /\ ss[t][g].i <= Len(ss[t][g].fds)
            /\ ss[t][g].fds[ss[t][g].i].fd \in BadFds
            /\ SS_Add(t, g))
              => /\ UNCHANGED <<reg, ref, wait_tasks_, state_>>
                 /\ ss'[t][g] = [ss[t][g] EXCEPT !.i = @ + 1]
        /\ (ss[t][g].pc \in {"loop", "finish"} /\ SS_Finish(t, g))
              => /\ ss[t][g].ok <=> (ss[t][g].rollback # <<>> /\ ~ss[t][g].dup)
                 /\ ss[t][g].ok => UNCHANGED <<wait_tasks_, state_, resumes>>
                 /\ ~ss[t][g].ok => t \notin wait_tasks_'
                 /\ (ss[t][g].rollback = <<>> /\ t \in wait_tasks_)
                       => (state_'[t] = "runnable" /\ wait_successful_'[t] = 0)

NonDupErrorsSkipped == [][NonDupErrorStep]_vars

\* C9, first half: a task blocked with a timeout and a successful
\* registration is eventually made runnable, whether or not an fd becomes
\* ready.
TimeoutResumes ==
    \A t \in Tasks, g \in BlockIds :
        (/\ state_[t] = "io_block"
         /\ io_block_id_[t] = g
         /\ io_block_timeout_[t] # NoTimeout
         /\ (ss[t][g].ok \/ timer[t][g] = "armed"))
            ~> (resumes[t][g] = 1)

NoTimerResumeStep ==
    \A a \in Actors :
        (cn[a].pc = "del" /\ cn[a].src = "timer" /\ Cancel_Resume(a))
            => io_block_timeout_[cn[a].tk] # NoTimeout

\* C9, second half: a task blocked with timeout_ms = -1 is never resumed by
\* a timer (the AddTaskRunnable of a timer callback's Cancel never hits a
\* block without a timeout).
NoTimerResume == [][NoTimerResumeStep]_vars

\* C9: timeout liveness, both halves.
TimeoutLiveness == TimeoutResumes /\ NoTimerResume

\* The part of WaitLoop guarded by epoll_lock_.
InPump(w) ==
    wl[w].pc \in {"wait0", "proc0", "wait1", "proc1", "cancels", "swap", "callbacks"}

PumpInv ==
    /\ Cardinality({w \in WaitThreads : InPump(w)}) <= 1
    /\ \A w \in WaitThreads :
          /\ InPump(w) <=> epoll_lock_ = w
          /\ cn[w].pc # "none" => epoll_lock_ = w
          /\ wl[w].evs # {} => epoll_lock_ = w
    /\ (epollwait_tasks_ # {} \/ TimersIn("taken") # {} \/ TimersIn("running") # {})
          => epoll_lock_ # 0
    /\ \A t \in Tasks, g \in BlockIds : resumes[t][g] <= 1

\* A WaitLoop call that loses try_lock returns having touched nothing.
LostTryLockStep ==
    \A w \in WaitThreads :
        (wl[w].pc = "trylock" /\ epoll_lock_ # 0 /\ WL_TryLock(w))
            => /\ wl'[w].pc = "returned"
               /\ UNCHANGED <<taskVars, wait_tasks_, reg, timer, epoll_lock_,
                              epollwait_tasks_, ss, cn, resumes>>

\* C10: at most one thread is in the part of WaitLoop guarded by epoll_lock_
\* (epoll_wait, the Cancel calls for events, the timer callbacks); a call
\* that loses try_lock does none of it; and no task is resumed twice.
PumpExclusion == []PumpInv /\ [][LostTryLockStep]_vars

\* C10 witness: one thread is tearing down a block inside the pump while
\* another, having drained an expired timer, is about to lose try_lock.
PumpExclusionWitness ==
    \E w1 \in WaitThreads, w2 \in WaitThreads :
        /\ w1 # w2
        /\ epoll_lock_ = w1
        /\ cn[w1].pc = "del"
        /\ wl[w2].pc = "trylock"
        /\ wl[w2].c > 0

\* C11: a WaitLoop call that lost try_lock returned the number of timers it
\* drained, or -1 if it drained none; a call that held the lock returned
\* epoll_n + c, the events it harvested plus the timers it drained, which is
\* not negative.  So -1 comes only from a call that lost the lock and did
\* no work.
WaitLoopReturnValue ==
    \A w \in WaitThreads :
        wl[w].pc = "returned"
            => /\ wl[w].c >= 0 /\ wl[w].epoll_n >= 0
               /\ ~wl[w].got => /\ wl[w].epoll_n = 0
                                /\ wl[w].ret = (IF wl[w].c > 0 THEN wl[w].c ELSE -1)
               /\ wl[w].got => wl[w].ret = wl[w].epoll_n + wl[w].c /\ wl[w].ret >= 0
               /\ wl[w].ret = -1 <=> (~wl[w].got /\ wl[w].c = 0)

\* C11 witness: one call lost try_lock after draining a timer and returned
\* its count, another held the lock and returned events plus timers.
WaitLoopReturnWitness ==
    \E w1 \in WaitThreads, w2 \in WaitThreads :
        /\ wl[w1].pc = "returned" /\ ~wl[w1].got /\ wl[w1].ret > 0
        /\ wl[w2].pc = "returned" /\ wl[w2].got
        /\ wl[w2].epoll_n > 0 /\ wl[w2].c > 0

\* The number of registrations the two instances hold after the step.
RegCount == Cardinality({ef \in EpollTypes \X Fds : reg[ef[1]][ef[2]] # NoReg})

\* An epoll_ctl issued while the recorded owner is another process works on
\* a pair of instances created by this process: the owner is updated and the
\* instances hold nothing but what the call itself installs.
CtlRecreatesStep ==
    /\ \A t \in Tasks, g \in BlockIds :
          (epoll_owner_pid_ # pid /\ ss[t][g].pc = "loop" /\ SS_Add(t, g))
              => epoll_owner_pid_' = pid /\ RegCount' <= 1
    /\ \A t \in Tasks, g \in BlockIds :
          (epoll_owner_pid_ # pid /\ ss[t][g].pc = "rollback" /\ SS_Rollback(t, g))
              => epoll_owner_pid_' = pid /\ RegCount' = 0
    /\ \A a \in Actors :
          (epoll_owner_pid_ # pid /\ cn[a].pc = "del" /\ Cancel_Del(a))
              => epoll_owner_pid_' = pid /\ RegCount' = 0

\* A WaitLoop call that takes epoll_lock_ while the recorded owner is
\* another process creates the pair and goes on to drain both instances.
PumpRecreatesStep ==
    \A w \in WaitThreads :
        (wl[w].pc = "trylock" /\ epoll_lock_ = 0 /\ epoll_owner_pid_ # pid
         /\ WL_TryLock(w))
            => epoll_owner_pid_' = pid /\ wl'[w].pc = "wait0"

PumpSkipsStep ==
    /\ \A w \in WaitThreads :
          (wl[w].pc = "trylock" /\ epoll_lock_ = 0 /\ epoll_owner_pid_ # pid
           /\ WL_TryLock(w))
              => UNCHANGED <<epoll_owner_pid_, reg>> /\ wl'[w].pc = "swap"
    /\ \A w \in WaitThreads, e \in EpollTypes :
          (wl[w].pc = WaitPc(e) /\ (WL_EpollWait(w, e) \/ WL_EpollWaitError(w, e)))
              => epoll_owner_pid_ = pid

KnobInv == 0 <= epollwait_ms_ /\ epollwait_ms_ <= max_sleep_ms

KnobStep ==
    /\ DelayEventWaitTime
          => epollwait_ms_' = (IF epollwait_ms_ = max_sleep_ms THEN epollwait_ms_
                               ELSE epollwait_ms_ + 1)
    /\ ResetEventWaitTime => epollwait_ms_' = 0

\* C13: after any sequence of DelayEventWaitTime and ResetEventWaitTime
\* calls 0 <= epollwait_ms_ <= max_sleep_ms; DelayEventWaitTime raises the
\* quantum by exactly 1 unless it is at max_sleep_ms, where it stays;
\* ResetEventWaitTime sets it to 0.
QuantumBounded == []KnobInv /\ [][KnobStep]_vars

\* C13 witness: the quantum was ratcheted up to the cap.
QuantumWitness == max_sleep_ms > 1 /\ epollwait_ms_ = max_sleep_ms

\* A Cancel for a harvested event runs only when the WaitLoop call is past
\* epoll_wait and the event loop of both instances.
CancelAfterBothDrains ==
    \A w \in WaitThreads :
        (cn[w].pc # "none" /\ cn[w].src = "event")
            => wl[w].pc = "cancels" /\ wl[w].evs = {}

\* Once the task has been made runnable for a block, wait_successful_ does
\* not change until the task blocks again.
CountFinalStep ==
    \A t \in Tasks :
        (state_[t] = "runnable" /\ io_block_id_'[t] = io_block_id_[t])
            => wait_successful_'[t] = wait_successful_[t]

\* C14: within one WaitLoop call no Cancel for a harvested event runs until
\* epoll_wait has been completed on both instances, and wait_successful_ of
\* a block is never incremented after the task has been made runnable for
\* that block.
DeferredCancelOrdering == []CancelAfterBothDrains /\ [][CountFinalStep]_vars

\* The life of a timer callback: created by ExpireAt, past its deadline,
\* moved into timeout_list_, swapped into the local list of a WaitLoop call,
\* being invoked, consumed.
TimerRank(st) ==
    CASE st = "none" -> 0
      [] st = "armed" -> 1
      [] st = "expired" -> 2
      [] st = "listed" -> 3
      [] st = "taken" -> 4
      [] st = "running" -> 5
      [] st = "done" -> 6

\* A callback out of timeout_list_ is in the local list of the one WaitLoop
\* call that holds epoll_lock_, or being invoked by that thread.
TimerHeldInv ==
    \A t \in Tasks, g \in BlockIds :
        /\ timer[t][g] = "taken"
              => \E w \in WaitThreads : epoll_lock_ = w /\ wl[w].pc = "callbacks"
        /\ timer[t][g] = "running"
              => \E w \in WaitThreads :
                     /\ epoll_lock_ = w
                     /\ wl[w].pc = "callbacks"
                     /\ cn[w].pc # "none" /\ cn[w].src = "timer"
                     /\ cn[w].tk = t /\ cn[w].id = g

\* A callback only moves forward through its life, so it is invoked (leaves
\* "taken") at most once, and the step that invokes it is WL_Callback of the
\* holder of epoll_lock_.
TimerOnceStep ==
    \A t \in Tasks, g \in BlockIds :
        /\ timer'[t][g] # timer[t][g]
              => TimerRank(timer'[t][g]) > TimerRank(timer[t][g])
        /\ (timer[t][g] \in {"expired", "listed"} /\ timer'[t][g] # timer[t][g])
              => TimerRank(timer'[t][g]) = TimerRank(timer[t][g]) + 1
        /\ (TimerRank(timer[t][g]) < 5 /\ TimerRank(timer'[t][g]) >= 5)
              => /\ timer[t][g] = "taken"
                 /\ \E w \in WaitThreads : epoll_lock_ = w /\ WL_Callback(w, t, g)

\* A callback moved into timeout_list_ is eventually invoked and consumed.
TimerRuns ==
    \A t \in Tasks, g \in BlockIds :
        (timer[t][g] = "listed") ~> (timer[t][g] = "done")

\* C15: every expired timer callback that a WaitLoop call moves into
\* timeout_list_ (a call that then loses try_lock included) is invoked
\* exactly once, by the thread holding epoll_lock_, in that call or a later
\* one, provided WaitLoop keeps being called.
TimerCallbacksOnce == []TimerHeldInv /\ [][TimerOnceStep]_vars /\ TimerRuns

\* C15 witness: a thread drained the only timer there is, lost try_lock and
\* returned; the callback is being invoked by the other thread.
TimerCallbacksWitness ==
    \E w1 \in WaitThreads, w2 \in WaitThreads, t \in Tasks, g \in BlockIds :
        /\ w1 # w2
        /\ wl[w2].pc = "returned" /\ ~wl[w2].got /\ wl[w2].c > 0
        /\ timer[t][g] = "running"
        /\ cn[w1].pc # "none" /\ cn[w1].src = "timer"
        /\ \A t2 \in Tasks, g2 \in BlockIds :
              <<t2, g2>> # <<t, g>> => timer[t2][g2] = "none"

\* The steps that destroy a task are taken by the thread that holds
\* epoll_lock_, at the end of its WaitLoop call: its event Cancels and timer
\* callbacks are over, and no other thread is inside the guarded part of
\* WaitLoop or in a Cancel called from it.
DestroyStep ==
    destroyed' # destroyed
        => \E w \in WaitThreads :
              /\ epoll_lock_ = w
              /\ wl[w].pc = "callbacks" /\ wl'[w].pc = "returned"
              /\ cn[w].pc = "none"
              /\ epollwait_tasks_ = {}
              /\ TimersIn("taken") = {} /\ TimersIn("running") = {}
              /\ \A w2 \in WaitThreads \ {w} :
                    ~InPump(w2) /\ cn[w2].pc = "none" /\ wl[w2].evs = {}

\* No cookie that epoll_wait returned, and none still in an interest list,
\* points at a destroyed task.
NoDeadCookie ==
    /\ \A w \in WaitThreads : \A e \in wl[w].evs : e.tk \notin destroyed
    /\ \A st \in epollwait_tasks_ : st.tk \notin destroyed

\* C16: a task is destroyed only by the holder of epoll_lock_ at the end of
\* WaitLoop, after that call's event Cancels and timer callbacks, never
\* while another thread decodes cookies or runs Cancel inside WaitLoop; and
\* no cookie harvested by epoll_wait points at a destroyed task.
QuiescentDestruction == [][DestroyStep]_vars /\ []NoDeadCookie

\* The SchedulerSwitch activation of block (t, g) still has an
\* EPOLL_CTL_ADD of its loop, or an EPOLL_CTL_DEL of its rollback, to issue.
SSRegistering(t, g) ==
    \/ ss[t][g].pc = "loop" /\ ss[t][g].i <= Len(ss[t][g].fds)
    \/ ss[t][g].pc = "rollback"

\* Thread a is in the teardown loop of Cancel for a list of several fds.
MultiTeardown(a) == cn[a].pc = "del" /\ Len(cn[a].fds) > 1

\* While Cancel tears down a multi-fd block it holds io_block_lock_, the
\* list it walks is the task's wait_fds_, and no SchedulerSwitch of the task
\* is registering.
TeardownInv ==
    \A a \in Actors :
        MultiTeardown(a)
            => /\ cn[a].locked /\ io_block_lock_[cn[a].tk]
               /\ cn[a].fds = wait_fds_[cn[a].tk]
               /\ \A g \in BlockIds : ~SSRegistering(cn[a].tk, g)

\* When the teardown of a multi-fd block is over, none of its fds is in the
\* instance it was meant for.
TeardownCleanStep ==
    \A a \in Actors :
        (MultiTeardown(a) /\ Cancel_Resume(a))
            => \A k \in 1..Len(cn[a].fds) :
                  reg'[ChooseEpoll(cn[a].fds[k].event)][cn[a].fds[k].fd] = NoReg

\* C17: for a block with more than one fd, the EPOLL_CTL_DEL loop of Cancel
\* never interleaves with the EPOLL_CTL_ADD loop or the rollback of a
\* SchedulerSwitch of the same task: the teardown runs under io_block_lock_
\* after SchedulerSwitch released it, and no fd of the block is registered
\* after the teardown.
TeardownSerialised == []TeardownInv /\ [][TeardownCleanStep]_vars

\* A registration leaves an interest list only through an EPOLL_CTL_DEL
\* issued on behalf of the task its cookie points at: by Cancel for that
\* task or by the rollback of a SchedulerSwitch of that task.
OwnerDelStep ==
    \A e \in EpollTypes, f \in Fds :
        (reg[e][f] # NoReg /\ reg'[e][f] = NoReg)
            => \/ \E a \in Actors : cn[a].tk = reg[e][f].tk /\ Cancel_Del(a)
               \/ \E g \in BlockIds : SS_Rollback(reg[e][f].tk, g)

\* The count of a task is what it is owed: beside the base count, the
\* RefGuards and the timers, one reference per live registration whose
\* cookie points at it.
RefMatchesRegs == \A t \in Tasks : ref[t] = Held(t)

\* C18: Cancel and the rollback of SchedulerSwitch never remove a
\* registration whose cookie points at another task, and in every state the
\* references a task holds for registrations are as many as the live
\* registrations whose cookie points at it.
OwnedTeardown == [][OwnerDelStep]_vars /\ []RefMatchesRegs

\* Whoever removes the task from the wait-set, and whoever calls
\* AddTaskRunnable, acts for the block the task is in: a Cancel called with
\* that block's id, or the SchedulerSwitch that registered that block.
OwnGenerationStep ==
    /\ \A a \in Actors :
          (cn[a].pc = "erase" /\ cn[a].tk \in wait_tasks_ /\ Cancel_Erase(a))
              => cn[a].id = io_block_id_[cn[a].tk]
    /\ \A a \in Actors :
          (cn[a].pc = "del" /\ Cancel_Resume(a))
              => cn[a].id = io_block_id_[cn[a].tk]
    /\ \A t \in Tasks, g \in BlockIds :
          (t \in wait_tasks_ /\ ~ss[t][g].ok /\ SS_Finish(t, g))
              => g = io_block_id_[t]

\* C19: the task is removed from the wait-set and made runnable for a block
\* only by a Cancel called with that block's id or by the failure path of
\* the SchedulerSwitch that registered that block; a Cancel or a
\* SchedulerSwitch of an earlier block never wins the erase for a later one.
OwnGenerationResume == [][OwnGenerationStep]_vars

\* C20: every descriptor ChooseEpoll / GetEpoll returns, for as long as the
\* caller uses it, is an open descriptor created by the current process:
\* never -1, never closed, never one inherited from the parent.
SafePublication ==
    \A th \in Actors :
        ce[th].pc = "use"
            => /\ ce[th].fd # NoFd
               /\ ce[th].fd \in open_fds
               /\ Creator(ce[th].fd) = getpid

====
